---- MODULE Spec2Model ----
(***************************************************************************)
(* Package / PackageRevision model of apis/pkg/v1.                         *)
(*                                                                         *)
(* The accessors of Provider, Configuration, ProviderRevision and          *)
(* ConfigurationRevision are translated from apis/pkg/v1/interfaces.go.    *)
(* The Package Reconciler that drives them (revision creation, activation  *)
(* policy, retention, status) is not part of that file; it is written here *)
(* from sections 4.1 and 5 of the design document, on top of the           *)
(* accessors.                                                              *)
(***************************************************************************)
EXTENDS Integers, FiniteSets, Sequences, TLC

VARIABLES pkg, revs, last, pre, deleted, rerun, issued, obj

vars == <<pkg, revs, last, pre, deleted, rerun, issued, obj>>

(***************************************************************************)
(* Bounds of the model.                                                    *)
(***************************************************************************)
\* Highest revision number the reconciler is allowed to hand out.
MaxRevision == 3
\* Highest revisionHistoryLimit an operator sets.
MaxLimit == 1
\* Largest number of dependencies a manifest declares, and largest counter
\* value a caller passes to SetDependencyStatus.
MaxDeps == 3

(***************************************************************************)
(* Values.                                                                 *)
(***************************************************************************)
\* An *int64: the empty tuple is the nil pointer, <<n>> points to n.
NilInt == <<>>

PtrInt(n) == <<n>>

Deref(l) == l[1]

AutomaticActivation == "Automatic"

ManualActivation == "Manual"

PackageRevisionActive == "Active"

PackageRevisionInactive == "Inactive"

TypeHealthy == "Healthy"

ConditionTrue == "True"

ConditionFalse == "False"

ConditionUnknown == "Unknown"

\* Package sources (OCI image references) an operator may declare.
Sources == {"img:v1", "img:v2", "img:v3"}

\* The stable content identifier (resolved digest) of a source.
Identifier(s) ==
    CASE s = "img:v1" -> "sha256:aaa"
      [] s = "img:v2" -> "sha256:bbb"
      [] s = "img:v3" -> "sha256:ccc"
      [] OTHER -> "sha256:none"

\* The name of the Revision that materialises an identifier.
RevisionName(id) ==
    CASE id = "sha256:aaa" -> "pkg-aaa"
      [] id = "sha256:bbb" -> "pkg-bbb"
      [] id = "sha256:ccc" -> "pkg-ccc"
      [] OTHER -> "pkg-none"

(***************************************************************************)
(* Package accessors (Provider and Configuration share these bodies).      *)
(***************************************************************************)
GetSource(p) == p.source

SetSource(p, s) == [p EXCEPT !.source = s]

\* Mutation: the default policy is returned instead of the stored one.
GetActivationPolicy_Default(p) == AutomaticActivation

GetActivationPolicy(p) == p.activationPolicy

SetActivationPolicy(p, a) == [p EXCEPT !.activationPolicy = a]

GetRevisionHistoryLimit(p) == p.revisionHistoryLimit

SetRevisionHistoryLimit(p, l) == [p EXCEPT !.revisionHistoryLimit = l]

GetCurrentRevision(p) == p.currentRevision

\* Mutation: the assignment is missing.
SetCurrentRevision_Dropped(p, s) == p

SetCurrentRevision(p, s) == [p EXCEPT !.currentRevision = s]

\* Mutation: Status.CurrentRevision is returned.
GetCurrentIdentifier_Revision(p) == p.currentRevision

GetCurrentIdentifier(p) == p.currentIdentifier

\* Mutation: the identifier is stored in Status.CurrentRevision.
SetCurrentIdentifier_WrongField(p, s) == [p EXCEPT !.currentRevision = s]

SetCurrentIdentifier(p, s) == [p EXCEPT !.currentIdentifier = s]

(***************************************************************************)
(* PackageRevision accessors (ProviderRevision and ConfigurationRevision   *)
(* share these bodies).                                                    *)
(***************************************************************************)
\* Mutation: every condition is reported True.
GetCondition_AlwaysTrue(r, ct) == ConditionTrue

\* Status.GetCondition: the stored condition, Unknown when none is stored.
GetCondition(r, ct) ==
    IF ct \in DOMAIN r.conditions THEN r.conditions[ct] ELSE ConditionUnknown

\* Status.SetConditions with one condition of type ct and status st.
SetConditions(r, ct, st) ==
    [r EXCEPT !.conditions =
        [t \in (DOMAIN r.conditions) \cup {ct} |->
            IF t = ct THEN st ELSE r.conditions[t]]]

\* Mutation: the stored state is ignored.
GetDesiredState_AlwaysInactive(r) == PackageRevisionInactive

GetDesiredState(r) == r.desiredState

\* Mutation: the assignment is missing.
SetDesiredState_Dropped(r, s) == r

\* Mutation: the argument is assigned to Spec.Package.
SetDesiredState_WrongField(r, s) == [r EXCEPT !.source = s]

\* Mutation: Active is stored whatever the argument.
SetDesiredState_AlwaysActive(r, s) == [r EXCEPT !.desiredState = "Active"]

SetDesiredState(r, s) == [r EXCEPT !.desiredState = s]

\* Mutation: the zero value is returned instead of Spec.Revision.
GetRevision_Zero(r) == 0

GetRevision(r) == r.revision

SetRevision(r, n) == [r EXCEPT !.revision = n]

\* Mutation: installed and invalid are returned in each other's place.
GetDependencyStatus_Swapped(r) ==
    <<r.foundDependencies, r.invalidDependencies, r.installedDependencies>>

GetDependencyStatus(r) ==
    <<r.foundDependencies, r.installedDependencies, r.invalidDependencies>>

\* Mutation: installed and invalid are assigned to each other's field.
SetDependencyStatus_Swapped(r, found, installed, invalid) ==
    [r EXCEPT !.foundDependencies = found,
              !.installedDependencies = invalid,
              !.invalidDependencies = installed]

\* Mutation: found is assigned to Status.InstalledDependencies as well.
SetDependencyStatus_FoundTwice(r, found, installed, invalid) ==
    [r EXCEPT !.foundDependencies = found,
              !.installedDependencies = found,
              !.invalidDependencies = invalid]

\* Mutation: Status.InvalidDependencies is not assigned.
SetDependencyStatus_InvalidLost(r, found, installed, invalid) ==
    [r EXCEPT !.foundDependencies = found, !.installedDependencies = installed]

SetDependencyStatus(r, found, installed, invalid) ==
    [r EXCEPT !.foundDependencies = found,
              !.installedDependencies = installed,
              !.invalidDependencies = invalid]

GetObjects(o) == o.objectRefs

SetObjects(o, c) == [o EXCEPT !.objectRefs = c]

GetControllerReference(r) == r.controllerRef

SetControllerReference(r, c) == [r EXCEPT !.controllerRef = c]

GetWebhookTLSSecretName(r) == r.webhookTLSSecretName

SetWebhookTLSSecretName(r, n) == [r EXCEPT !.webhookTLSSecretName = n]

GetESSTLSSecretName(r) == r.essTLSSecretName

SetESSTLSSecretName(r, n) == [r EXCEPT !.essTLSSecretName = n]

GetTLSServerSecretName(r) == r.tlsServerSecretName

SetTLSServerSecretName(r, n) == [r EXCEPT !.tlsServerSecretName = n]

GetTLSClientSecretName(r) == r.tlsClientSecretName

SetTLSClientSecretName(r, n) == [r EXCEPT !.tlsClientSecretName = n]

(***************************************************************************)
(* The configuration a Package hands on to its Revisions.  Package and     *)
(* PackageRevision variants share these bodies, except that Configuration  *)
(* has no controller configuration: its getter returns nil and its setter  *)
(* does nothing.  Pointers are <<>> (nil) or <<v>>; a slice is a sequence, *)
(* a map a function.                                                       *)
(***************************************************************************)
Nil == <<>>

Ptr(v) == <<v>>

GetPackagePullSecrets(o) == o.packagePullSecrets

SetPackagePullSecrets(o, s) == [o EXCEPT !.packagePullSecrets = s]

\* Mutation: nil is returned instead of Spec.PackagePullPolicy.
GetPackagePullPolicy_Nil(o) == Nil

GetPackagePullPolicy(o) == o.packagePullPolicy

SetPackagePullPolicy(o, i) == [o EXCEPT !.packagePullPolicy = i]

GetIgnoreCrossplaneConstraints(o) == o.ignoreCrossplaneConstraints

SetIgnoreCrossplaneConstraints(o, b) == [o EXCEPT !.ignoreCrossplaneConstraints = b]

GetControllerConfigRef(o) ==
    IF o.kind = "Configuration" THEN Nil ELSE o.controllerConfigRef

SetControllerConfigRef(o, r) ==
    IF o.kind = "Configuration" THEN o ELSE [o EXCEPT !.controllerConfigRef = r]

\* Mutation: nil is returned instead of Spec.SkipDependencyResolution.
GetSkipDependencyResolution_Nil(o) == Nil

GetSkipDependencyResolution(o) == o.skipDependencyResolution

SetSkipDependencyResolution(o, b) == [o EXCEPT !.skipDependencyResolution = b]

GetCommonLabels(o) == o.commonLabels

SetCommonLabels(o, l) == [o EXCEPT !.commonLabels = l]

(***************************************************************************)
(* Package Reconciler, design document section 4.1.  One invocation reads  *)
(* the Package and the Revisions it owns and runs four steps in order,     *)
(* each on the in-memory result of the one before (section 5).             *)
(***************************************************************************)
IsAutomatic(p) == GetActivationPolicy(p) = AutomaticActivation

IsHealthy(r) == GetCondition(r, TypeHealthy) = ConditionTrue

ActiveRevisions(rs) == {r \in rs : GetDesiredState(r) = PackageRevisionActive}

InactiveRevisions(rs) == {r \in rs : GetDesiredState(r) = PackageRevisionInactive}

\* max(existing revisions), 0 when there is none.
MaxRevisionOf(rs) ==
    IF rs = {} THEN 0
    ELSE CHOOSE n \in {GetRevision(r) : r \in rs} :
            \A r \in rs : GetRevision(r) <= n

\* The Revisions whose identifier is the one of the desired source.
Matching(rs, p) ==
    {r \in rs : Identifier(GetSource(r)) = Identifier(GetSource(p))}

\* Step 1: a Revision for the desired identifier, created Inactive with the
\* next revision number when none exists.
NewRevision(p, n) ==
    LET blank == [name |-> RevisionName(Identifier(GetSource(p))),
                  source |-> "", revision |-> 0, desiredState |-> "",
                  conditions |-> <<>>]
    IN  SetDesiredState(SetRevision(SetSource(blank, GetSource(p)), n),
                        PackageRevisionInactive)

WithTarget(rs, p) ==
    IF Matching(rs, p) = {}
    THEN rs \cup {NewRevision(p, MaxRevisionOf(rs) + 1)}
    ELSE rs

\* The Revision the Package holds to be authoritative among the Active ones:
\* the one its status names, else the most recent.
AuthoritativeActive(rs, p) ==
    LET act == ActiveRevisions(rs)
        named == {r \in act : r.name = GetCurrentRevision(p)}
    IN  IF named # {} THEN CHOOSE r \in named : TRUE
        ELSE CHOOSE r \in act : \A q \in act : GetRevision(q) <= GetRevision(r)

\* Step 2: the activation policy.  Automatic: the target is set Active and all
\* others Inactive; while the target is not healthy the previous Active
\* Revision remains the Active one.  Manual: nothing is touched.
ApplyActivation(rs, p) ==
    IF ~IsAutomatic(p) THEN rs
    ELSE LET target == CHOOSE r \in Matching(rs, p) : TRUE
             keep == IF IsHealthy(target) \/ ActiveRevisions(rs) = {}
                     THEN target.name
                     ELSE AuthoritativeActive(rs, p).name
         IN  {SetDesiredState(r, IF r.name = keep THEN PackageRevisionActive
                                 ELSE PackageRevisionInactive) : r \in rs}

\* Step 3: retention.  While the Inactive Revisions outnumber the limit, the
\* one with the lowest revision number is deleted.
RECURSIVE DeleteOldest(_, _)
DeleteOldest(rs, limit) ==
    LET ina == InactiveRevisions(rs)
    IN  IF Cardinality(ina) > limit
        THEN LET oldest == CHOOSE r \in ina :
                              \A q \in ina : GetRevision(r) <= GetRevision(q)
             IN  DeleteOldest(rs \ {oldest}, limit)
        ELSE rs

EnforceRetention(rs, p) ==
    IF GetRevisionHistoryLimit(p) = NilInt THEN rs
    ELSE DeleteOldest(rs, Deref(GetRevisionHistoryLimit(p)))

\* Step 4: the Package status names the Active Revision; with none Active the
\* previous values stay.
UpdateStatus(p, rs) ==
    IF ActiveRevisions(rs) = {} THEN p
    ELSE LET a == AuthoritativeActive(rs, p)
         IN  SetCurrentIdentifier(SetCurrentRevision(p, a.name),
                                  Identifier(GetSource(a)))

NoRun == [revs |-> {}, currentRevision |-> "", currentIdentifier |-> "", issued |-> 0]

Reconcile ==
    LET withTarget == WithTarget(revs, pkg)
        activated == ApplyActivation(withTarget, pkg)
        retained == EnforceRetention(activated, pkg)
        fresh == withTarget \ revs
    IN  /\ MaxRevisionOf(withTarget) <= MaxRevision
        /\ revs' = retained
        /\ pkg' = UpdateStatus(pkg, retained)
        /\ deleted' = activated \ retained
        /\ pre' = [revs |-> revs,
                   currentRevision |-> GetCurrentRevision(pkg),
                   currentIdentifier |-> GetCurrentIdentifier(pkg),
                   issued |-> issued]
        /\ rerun' = (last = "Reconcile")
        /\ issued' = IF fresh = {} \/ MaxRevisionOf(fresh) <= issued THEN issued
                     ELSE MaxRevisionOf(fresh)
        /\ last' = "Reconcile"
        /\ UNCHANGED obj

(***************************************************************************)
(* The environment of the Package Reconciler: the operator editing the     *)
(* Package, the Revision Reconciler reporting health, and, under Manual    *)
(* activation, the operator flipping a Revision's desired state.           *)
(***************************************************************************)
Forget ==
    /\ last' = "Other"
    /\ pre' = NoRun
    /\ deleted' = {}
    /\ rerun' = FALSE
    /\ UNCHANGED <<issued, obj>>

ChangeSource ==
    \E s \in Sources \ {GetSource(pkg)} :
        /\ pkg' = SetSource(pkg, s)
        /\ UNCHANGED revs
        /\ Forget

ChangeActivationPolicy ==
    \E a \in {AutomaticActivation, ManualActivation} \ {GetActivationPolicy(pkg)} :
        /\ pkg' = SetActivationPolicy(pkg, a)
        /\ UNCHANGED revs
        /\ Forget

ChangeRevisionHistoryLimit ==
    \E l \in ({NilInt} \cup {PtrInt(n) : n \in 0..MaxLimit}) \ {GetRevisionHistoryLimit(pkg)} :
        /\ pkg' = SetRevisionHistoryLimit(pkg, l)
        /\ UNCHANGED revs
        /\ Forget

ReportHealth ==
    \E r \in revs, st \in {ConditionTrue, ConditionFalse} :
        /\ GetCondition(r, TypeHealthy) # st
        /\ revs' = (revs \ {r}) \cup {SetConditions(r, TypeHealthy, st)}
        /\ UNCHANGED pkg
        /\ Forget

OperatorSetDesiredState ==
    \E r \in revs, d \in {PackageRevisionActive, PackageRevisionInactive} :
        /\ GetActivationPolicy(pkg) = ManualActivation
        /\ r.desiredState # d
        /\ revs' = (revs \ {r}) \cup {[r EXCEPT !.desiredState = d]}
        /\ UNCHANGED pkg
        /\ Forget

\* A freshly constructed revision object of either variant: Go zero values.
NewObject(kind) ==
    [kind |-> kind, foundDependencies |-> 0, installedDependencies |-> 0,
     invalidDependencies |-> 0]

Init ==
    /\ pkg = [source |-> "img:v1", activationPolicy |-> AutomaticActivation,
              revisionHistoryLimit |-> NilInt,
              currentRevision |-> "", currentIdentifier |-> ""]
    /\ revs = {}
    /\ last = "Init"
    /\ pre = NoRun
    /\ deleted = {}
    /\ rerun = FALSE
    /\ issued = 0
    /\ obj = NewObject("ProviderRevision")

Next ==
    \/ Reconcile
    \/ ChangeSource
    \/ ChangeActivationPolicy
    \/ ChangeRevisionHistoryLimit
    \/ ReportHealth
    \/ OperatorSetDesiredState

Spec == Init /\ [][Next]_vars

(***************************************************************************)
(* The dependency status of one Revision object, written through           *)
(* SetDependencyStatus by the Dependency Resolver (design document section *)
(* 4.3) and by any other caller of the exported setter.                    *)
(***************************************************************************)
\* What looking up one declared dependency among the installed Packages gives.
Outcomes == {"missing", "conflict", "satisfied"}

Count(lookup, outcome) == Cardinality({d \in DOMAIN lookup : lookup[d] = outcome})

\* One resolver run over the declared dependencies: found is their number,
\* installed the satisfied ones, invalid the conflicting ones.
ResolveDependencies ==
    \E n \in 0..MaxDeps :
        \E lookup \in [1..n -> Outcomes] :
            /\ obj' = SetDependencyStatus(obj, n, Count(lookup, "satisfied"),
                                          Count(lookup, "conflict"))
            /\ UNCHANGED <<pkg, revs, last, pre, deleted, rerun, issued>>

\* A caller of the exported setter with any three int64 values.
CallSetDependencyStatus ==
    \E found, installed, invalid \in -1..MaxDeps :
        /\ obj' = SetDependencyStatus(obj, found, installed, invalid)
        /\ UNCHANGED <<pkg, revs, last, pre, deleted, rerun, issued>>

InitDep ==
    /\ pkg = [source |-> "img:v1", activationPolicy |-> AutomaticActivation,
              revisionHistoryLimit |-> NilInt,
              currentRevision |-> "", currentIdentifier |-> ""]
    /\ revs = {}
    /\ last = "Init"
    /\ pre = NoRun
    /\ deleted = {}
    /\ rerun = FALSE
    /\ issued = 0
    /\ obj \in {NewObject("ProviderRevision"), NewObject("ConfigurationRevision")}

NextDep ==
    \/ ResolveDependencies
    \/ CallSetDependencyStatus

SpecDep == InitDep /\ [][NextDep]_vars

(***************************************************************************)
(* One Revision object, as the Package Reconciler created it, under calls  *)
(* of its exported setters by any holder of the object.  pre is the log of *)
(* the calls made: the setter's name, its argument and the object it was   *)
(* called on.                                                              *)
(***************************************************************************)
\* Number of setter calls followed.
MaxCalls == 2

\* The Go zero value of a revision object of either variant.
ZeroRevision(kind) ==
    [kind |-> kind, source |-> "", revision |-> 0, desiredState |-> "",
     packagePullSecrets |-> <<>>, packagePullPolicy |-> Nil,
     ignoreCrossplaneConstraints |-> Nil, controllerConfigRef |-> Nil,
     skipDependencyResolution |-> Nil, commonLabels |-> [k \in {} |-> ""],
     foundDependencies |-> 0, installedDependencies |-> 0,
     invalidDependencies |-> 0, conditions |-> <<>>,
     objectRefs |-> <<>>, controllerRef |-> "",
     webhookTLSSecretName |-> Nil, essTLSSecretName |-> Nil,
     tlsServerSecretName |-> Nil, tlsClientSecretName |-> Nil]

\* The first Revision of a Package, as created in step 1 of section 4.1.
CreatedRevision(kind) ==
    SetDesiredState(SetRevision(SetSource(ZeroRevision(kind), "img:v1"), 1),
                    PackageRevisionInactive)

\* Arguments the callers pass.  PackageRevisionDesiredState is a string type:
\* "Paused" stands for any string that is neither Active nor Inactive.
DesiredStates == {PackageRevisionActive, PackageRevisionInactive, "Paused"}

PullSecrets == {<<>>, <<"regcred">>}

PullPolicies == {Nil, Ptr("Always"), Ptr("IfNotPresent")}

BoolPtrs == {Nil, Ptr(TRUE), Ptr(FALSE)}

ConfigRefs == {Nil, Ptr("config")}

LabelMaps == {[k \in {} |-> ""], [k \in {"team"} |-> "a"]}

SecretNames == {Nil, Ptr("tls-secret")}

RevisionKinds == {"ProviderRevision", "ConfigurationRevision"}

\* The structural schema of the revision resource: spec.desiredState and
\* spec.image are strings, spec.revision is an integer, all three required.
SchemaAccepts(o) ==
    /\ o.desiredState \in STRING
    /\ o.source \in STRING
    /\ o.revision \in Int

\* A setter was called on obj and left it as o.
Called(op, o) ==
    /\ Len(pre) < MaxCalls
    /\ obj' = o
    /\ pre' = Append(pre, [op |-> op, before |-> obj])
    /\ last' = op
    /\ UNCHANGED <<pkg, revs, deleted, rerun, issued>>

\* A setter was called on obj with argument arg and left it as o.
CalledWith(op, arg, o) ==
    /\ Len(pre) < MaxCalls
    /\ obj' = o
    /\ pre' = Append(pre, [op |-> op, arg |-> arg, before |-> obj])
    /\ last' = op
    /\ UNCHANGED <<pkg, revs, deleted, rerun, issued>>

CallSetSource == \E s \in Sources : CalledWith("SetSource", s, SetSource(obj, s))

CallSetRevision ==
    \E n \in 0..MaxRevision :
        /\ obj.kind \in RevisionKinds
        /\ CalledWith("SetRevision", n, SetRevision(obj, n))

CallSetDesiredState ==
    \E d \in DesiredStates :
        /\ obj.kind \in RevisionKinds
        /\ CalledWith("SetDesiredState", d, SetDesiredState(obj, d))

CallSetPackagePullSecrets ==
    \E x \in PullSecrets :
        CalledWith("SetPackagePullSecrets", x, SetPackagePullSecrets(obj, x))

CallSetPackagePullPolicy ==
    \E i \in PullPolicies :
        CalledWith("SetPackagePullPolicy", i, SetPackagePullPolicy(obj, i))

CallSetIgnoreCrossplaneConstraints ==
    \E b \in BoolPtrs :
        CalledWith("SetIgnoreCrossplaneConstraints", b,
                   SetIgnoreCrossplaneConstraints(obj, b))

CallSetControllerConfigRef ==
    \E r \in ConfigRefs :
        CalledWith("SetControllerConfigRef", r, SetControllerConfigRef(obj, r))

CallSetSkipDependencyResolution ==
    \E b \in BoolPtrs :
        CalledWith("SetSkipDependencyResolution", b,
                   SetSkipDependencyResolution(obj, b))

CallSetCommonLabels ==
    \E l \in LabelMaps : CalledWith("SetCommonLabels", l, SetCommonLabels(obj, l))

CallSetCounters ==
    \E found, installed, invalid \in 0..1 :
        /\ obj.kind \in RevisionKinds
        /\ CalledWith("SetDependencyStatus", <<found, installed, invalid>>,
                      SetDependencyStatus(obj, found, installed, invalid))

\* SetConditions with the one condition c: its type and its status.
CallSetConditions ==
    \E st \in {ConditionTrue, ConditionFalse} :
        CalledWith("SetConditions", <<TypeHealthy, st>>,
                   SetConditions(obj, TypeHealthy, st))

CallSetObjects ==
    \E c \in {<<>>, <<"crd:buckets">>} :
        /\ obj.kind \in RevisionKinds
        /\ CalledWith("SetObjects", c, SetObjects(obj, c))

CallSetControllerReference ==
    \E c \in {"", "provider-pod"} :
        /\ obj.kind \in RevisionKinds
        /\ CalledWith("SetControllerReference", c, SetControllerReference(obj, c))

CallSetWebhookTLSSecretName ==
    \E n \in SecretNames :
        /\ obj.kind \in RevisionKinds
        /\ CalledWith("SetWebhookTLSSecretName", n, SetWebhookTLSSecretName(obj, n))

CallSetESSTLSSecretName ==
    \E n \in SecretNames :
        /\ obj.kind \in RevisionKinds
        /\ CalledWith("SetESSTLSSecretName", n, SetESSTLSSecretName(obj, n))

CallSetTLSServerSecretName ==
    \E n \in SecretNames :
        /\ obj.kind \in RevisionKinds
        /\ CalledWith("SetTLSServerSecretName", n, SetTLSServerSecretName(obj, n))

CallSetTLSClientSecretName ==
    \E n \in SecretNames :
        /\ obj.kind \in RevisionKinds
        /\ CalledWith("SetTLSClientSecretName", n, SetTLSClientSecretName(obj, n))

InitAcc ==
    /\ pkg = [source |-> "img:v1", activationPolicy |-> AutomaticActivation,
              revisionHistoryLimit |-> NilInt,
              currentRevision |-> "", currentIdentifier |-> ""]
    /\ revs = {}
    /\ last = "Init"
    /\ pre = <<>>
    /\ deleted = {}
    /\ rerun = FALSE
    /\ issued = 0
    /\ obj \in {CreatedRevision("ProviderRevision"), CreatedRevision("ConfigurationRevision")}

NextAcc ==
    \/ CallSetSource
    \/ CallSetRevision
    \/ CallSetDesiredState
    \/ CallSetPackagePullSecrets
    \/ CallSetPackagePullPolicy
    \/ CallSetIgnoreCrossplaneConstraints
    \/ CallSetControllerConfigRef
    \/ CallSetSkipDependencyResolution
    \/ CallSetCommonLabels
    \/ CallSetCounters
    \/ CallSetConditions
    \/ CallSetObjects
    \/ CallSetControllerReference
    \/ CallSetWebhookTLSSecretName
    \/ CallSetESSTLSSecretName
    \/ CallSetTLSServerSecretName
    \/ CallSetTLSClientSecretName

SpecAcc == InitAcc /\ [][NextAcc]_vars

(***************************************************************************)
(* Revision Reconciler, design document section 4.2, on one Revision that  *)
(* declares at most one dependency.  obj is the Revision (rev), its        *)
(* lifecycle state (phase), whether its objects are applied, and what the  *)
(* reconciler observes around it: the outcome of looking up the declared   *)
(* dependency (dep, a sequence of at most one outcome), whether applying   *)
(* the objects meets no conflict, whether the controller workload reports  *)
(* ready, and whether the package content is valid.  pre is obj as the     *)
(* last pass found it.                                                     *)
(***************************************************************************)
Phases == {"Pending", "Installing", "Active-Healthy", "Inactive-Parked", "Deleting"}

IsActive(r) == GetDesiredState(r) = PackageRevisionActive

InvalidOf(r) == GetDependencyStatus(r)[3]

\* Section 4.3 as run for one Revision: skipped Revisions report zeros, the
\* Active ones the counts of the lookup, the others keep what they have.
DependencyStep(r, lookup) ==
    IF GetSkipDependencyResolution(r) = Ptr(TRUE)
    THEN SetDependencyStatus(r, 0, 0, 0)
    ELSE IF IsActive(r)
         THEN SetDependencyStatus(r, Len(lookup), Count(lookup, "satisfied"),
                                  Count(lookup, "conflict"))
         ELSE r

\* What Installing -> Active-Healthy requires.
Established(r, applied, ready) ==
    /\ applied
    /\ InvalidOf(r) = 0
    /\ IsActive(r) => ready

\* One pass over a Revision that is not being deleted.
ReconcileRevision ==
    LET r == DependencyStep(obj.rev, obj.dep)
        applied == IF obj.phase \in {"Installing", "Inactive-Parked"}
                   THEN obj.applied \/ obj.conflictFree
                   ELSE obj.applied
        healthy == SetConditions(r, TypeHealthy, ConditionTrue)
        next ==
            CASE obj.phase = "Pending" ->
                    IF obj.valid THEN [obj EXCEPT !.rev = r, !.phase = "Installing"]
                    ELSE [obj EXCEPT !.rev = SetConditions(r, TypeHealthy, ConditionFalse)]
              [] obj.phase = "Installing" /\ ~IsActive(r) ->
                    [obj EXCEPT !.rev = IF applied /\ InvalidOf(r) = 0 THEN healthy ELSE r,
                                !.applied = applied, !.phase = "Inactive-Parked"]
              [] obj.phase = "Installing" /\ IsActive(r) ->
                    IF Established(r, applied, obj.ready)
                    THEN [obj EXCEPT !.rev = healthy, !.applied = applied,
                                     !.phase = "Active-Healthy"]
                    ELSE [obj EXCEPT !.rev = r, !.applied = applied]
              [] obj.phase = "Active-Healthy" ->
                    [obj EXCEPT !.rev = r,
                                !.phase = IF IsActive(r) THEN @ ELSE "Inactive-Parked"]
              [] OTHER ->
                    [obj EXCEPT !.rev = IF applied /\ InvalidOf(r) = 0 THEN healthy ELSE r,
                                !.applied = applied,
                                !.phase = IF IsActive(r) THEN "Installing" ELSE @]
    IN  /\ obj.phase # "Deleting"
        /\ obj' = next
        /\ pre' = obj
        /\ last' = "ReconcileRevision"
        /\ UNCHANGED <<pkg, revs, deleted, rerun, issued>>

\* Anything else that writes: the history of the last pass is gone.
Elsewhere(o) ==
    /\ obj' = o
    /\ pre' = NoRun
    /\ last' = "Other"
    /\ UNCHANGED <<pkg, revs, deleted, rerun, issued>>

\* The installed Packages change under the declared dependency.
DependencyChanges ==
    \E o \in Outcomes :
        /\ obj.dep # <<>> /\ obj.dep # <<o>>
        /\ Elsewhere([obj EXCEPT !.dep = <<o>>])

\* Another owner takes, or gives up, an object this Revision applies.
ObjectsChange ==
    /\ obj.phase # "Deleting"
    /\ Elsewhere([obj EXCEPT !.conflictFree = ~@])

\* The controller workload becomes ready, or stops being so.
ControllerChanges ==
    /\ obj.phase # "Deleting"
    /\ Elsewhere([obj EXCEPT !.ready = ~@])

\* The Package Reconciler, or the operator, flips the desired state.
DesiredStateChanges ==
    \E d \in {PackageRevisionActive, PackageRevisionInactive} \ {GetDesiredState(obj.rev)} :
        /\ obj.phase # "Deleting"
        /\ Elsewhere([obj EXCEPT !.rev = SetDesiredState(@, d)])

SkipChanges ==
    \E b \in BoolPtrs \ {GetSkipDependencyResolution(obj.rev)} :
        /\ obj.phase # "Deleting"
        /\ Elsewhere([obj EXCEPT !.rev = SetSkipDependencyResolution(@, b)])

\* Garbage collection asks for the Revision's removal.
MarkDeleted ==
    /\ obj.phase # "Deleting"
    /\ Elsewhere([obj EXCEPT !.phase = "Deleting"])

\* Deleting: the ownership of the applied objects is released.
TearDown ==
    /\ obj.phase = "Deleting"
    /\ obj.applied
    /\ Elsewhere([obj EXCEPT !.applied = FALSE])

InitRev ==
    /\ pkg = [source |-> "img:v1", activationPolicy |-> AutomaticActivation,
              revisionHistoryLimit |-> NilInt,
              currentRevision |-> "", currentIdentifier |-> ""]
    /\ revs = {}
    /\ last = "Init"
    /\ pre = NoRun
    /\ deleted = {}
    /\ rerun = FALSE
    /\ issued = 0
    /\ \E kind \in {"ProviderRevision", "ConfigurationRevision"},
          dep \in {<<>>} \cup {<<o>> : o \in Outcomes}, valid \in BOOLEAN :
            obj = [rev |-> CreatedRevision(kind), phase |-> "Pending",
                   applied |-> FALSE, dep |-> dep, conflictFree |-> TRUE,
                   ready |-> FALSE, valid |-> valid]

NextRev ==
    \/ ReconcileRevision
    \/ DependencyChanges
    \/ ObjectsChange
    \/ ControllerChanges
    \/ DesiredStateChanges
    \/ SkipChanges
    \/ MarkDeleted
    \/ TearDown

SpecRev == InitRev /\ [][NextRev]_vars

(***************************************************************************)
(* Dependency Resolver, design document section 4.3, against the Packages  *)
(* installed in the control plane.  obj is the Revision being resolved     *)
(* (rev) and the installed Packages, each a source with the version it     *)
(* resolved to; pre is obj as the last run found it, with the manifest the *)
(* run resolved.                                                           *)
(***************************************************************************)
\* The sources the manifests name as dependencies.
DepSources == {"dep:a", "dep:b", "dep:c"}

Versions == {1, 2}

\* A version constraint is the set of versions it admits.
Constraints == {{1}, {2}, {1, 2}}

\* The manifests: at most one constraint per dependency source.
Manifests ==
    UNION {[declared -> Constraints] : declared \in SUBSET DepSources}

InstalledAt(packages, src) == {p \in packages : p.source = src}

\* Step 1 for one declared dependency.
Lookup(packages, src, constraint, permitted) ==
    IF InstalledAt(packages, src) = {}
    THEN IF permitted THEN "created" ELSE "missing"
    ELSE IF \E p \in InstalledAt(packages, src) : p.version \in constraint
         THEN "satisfied"
         ELSE "conflict"

\* The highest version a constraint admits: what install-on-demand installs.
Newest(constraint) == CHOOSE v \in constraint : \A w \in constraint : w <= v

Resolve ==
    \E manifest \in Manifests, permitted \in BOOLEAN :
        LET declared == DOMAIN manifest
            outcome == [src \in declared |->
                           Lookup(obj.packages, src, manifest[src], permitted)]
            created == {[source |-> src, version |-> Newest(manifest[src])] :
                           src \in {d \in declared : outcome[d] = "created"}}
        IN  /\ obj' = [obj EXCEPT
                        !.rev = SetDependencyStatus(@, Cardinality(declared),
                                    Count(outcome, "satisfied") + Count(outcome, "created"),
                                    Count(outcome, "conflict")),
                        !.packages = @ \cup created]
            /\ pre' = [packages |-> obj.packages, manifest |-> manifest]
            /\ last' = "Resolve"
            /\ UNCHANGED <<pkg, revs, deleted, rerun, issued>>

\* A Package's own reconciler moves it to another version.
PackageMoves ==
    \E p \in obj.packages : \E v \in Versions \ {p.version} :
        Elsewhere([obj EXCEPT !.packages = (@ \ {p}) \cup {[p EXCEPT !.version = v]}])

\* The operator removes a Package.
PackageRemoved ==
    \E p \in obj.packages :
        Elsewhere([obj EXCEPT !.packages = @ \ {p}])

InitRes ==
    /\ pkg = [source |-> "img:v1", activationPolicy |-> AutomaticActivation,
              revisionHistoryLimit |-> NilInt,
              currentRevision |-> "", currentIdentifier |-> ""]
    /\ revs = {}
    /\ last = "Init"
    /\ pre = NoRun
    /\ deleted = {}
    /\ rerun = FALSE
    /\ issued = 0
    /\ obj = [rev |-> SetDesiredState(CreatedRevision("ProviderRevision"),
                                      PackageRevisionActive),
              packages |-> {}]

NextRes ==
    \/ Resolve
    \/ PackageMoves
    \/ PackageRemoved

SpecRes == InitRes /\ [][NextRes]_vars

(***************************************************************************)
(* A revision list and the view GetRevisions returns of it.  obj is the    *)
(* memory: structs holds the revision structs by address, maps and slices  *)
(* the backing storage of their commonLabels and objectRefs by address;    *)
(* items are the addresses of the list's Items and view the pointers last  *)
(* returned by GetRevisions.  A struct holds its map and its slice by      *)
(* reference, as Go does.  pre is the log of the operations made.          *)
(***************************************************************************)
\* Mutation: the pointers returned are those of the Items themselves.
GetRevisions_Aliased(m) == [m EXCEPT !.view = m.items]

\* prs[i] = &r for a fresh copy r of Items[i]: the copy has its own address
\* and the same field values, references included.
GetRevisions(m) ==
    [m EXCEPT !.structs = m.structs \o [i \in 1..Len(m.items) |-> m.structs[m.items[i]]],
              !.view = [i \in 1..Len(m.items) |-> Len(m.structs) + i]]

\* The pointers a caller holds on either side.
Pointers(side) == IF side = "view" THEN obj.view ELSE obj.items

Sides == {"view", "items"}

CallGetRevisions ==
    /\ Len(obj.items) > 0
    /\ Called([side |-> "list", kind |-> "list", index |-> 0], GetRevisions(obj))

ListSetDesiredState ==
    \E side \in Sides, d \in {PackageRevisionActive, PackageRevisionInactive} :
        \E i \in DOMAIN Pointers(side) :
            Called([side |-> side, kind |-> "set", index |-> i],
                   [obj EXCEPT !.structs[Pointers(side)[i]] = SetDesiredState(@, d)])

ListSetDependencyStatus ==
    \E side \in Sides, found, installed, invalid \in 0..1 :
        \E i \in DOMAIN Pointers(side) :
            Called([side |-> side, kind |-> "set", index |-> i],
                   [obj EXCEPT !.structs[Pointers(side)[i]] =
                        SetDependencyStatus(@, found, installed, invalid)])

\* SetCommonLabels with a map the caller has just made.
ListSetCommonLabels ==
    \E side \in Sides, l \in LabelMaps :
        \E i \in DOMAIN Pointers(side) :
            Called([side |-> side, kind |-> "set", index |-> i],
                   [obj EXCEPT !.maps = Append(@, l),
                               !.structs[Pointers(side)[i]] =
                                    SetCommonLabels(@, Len(obj.maps) + 1)])

\* GetCommonLabels()["team"] = v.
MutateCommonLabels ==
    \E side \in Sides, v \in {"a", "b"} :
        \E i \in DOMAIN Pointers(side) :
            LET a == GetCommonLabels(obj.structs[Pointers(side)[i]])
            IN  Called([side |-> side, kind |-> "labels", index |-> i],
                       [obj EXCEPT !.maps[a] =
                            [k \in DOMAIN @ \cup {"team"} |-> IF k = "team" THEN v ELSE @[k]]])

\* GetObjects()[0] = ref.
MutateObjects ==
    \E side \in Sides, ref \in {"crd:x", "crd:y"} :
        \E i \in DOMAIN Pointers(side) :
            LET a == GetObjects(obj.structs[Pointers(side)[i]])
            IN  /\ Len(obj.slices[a]) > 0
                /\ Called([side |-> side, kind |-> "objects", index |-> i],
                          [obj EXCEPT !.slices[a][1] = ref])

\* One list item: its struct refers to map a and slice a.
ListItem(kind, d, a) ==
    SetDesiredState([kind |-> kind, desiredState |-> "",
                     foundDependencies |-> 0, installedDependencies |-> 0,
                     invalidDependencies |-> 0, commonLabels |-> a, objectRefs |-> a], d)

InitList ==
    /\ pkg = [source |-> "img:v1", activationPolicy |-> AutomaticActivation,
              revisionHistoryLimit |-> NilInt,
              currentRevision |-> "", currentIdentifier |-> ""]
    /\ revs = {}
    /\ last = "Init"
    /\ pre = <<>>
    /\ deleted = {}
    /\ rerun = FALSE
    /\ issued = 0
    /\ \E kind \in {"ProviderRevision", "ConfigurationRevision"} :
          obj = [structs |-> <<ListItem(kind, PackageRevisionInactive, 1),
                               ListItem(kind, PackageRevisionActive, 2)>>,
                 maps |-> <<[k \in {"team"} |-> "a"], [k \in {} |-> ""]>>,
                 slices |-> <<(<<"crd:x">>), (<<"crd:x">>)>>,
                 items |-> <<1, 2>>,
                 view |-> <<>>]

NextList ==
    \/ CallGetRevisions
    \/ ListSetDesiredState
    \/ ListSetDependencyStatus
    \/ ListSetCommonLabels
    \/ MutateCommonLabels
    \/ MutateObjects

SpecList == InitList /\ [][NextList]_vars

(***************************************************************************)
(* A Package of either variant as the operator configures it, and the      *)
(* first Revision the Package Reconciler creates for it (section 4.1 step  *)
(* 1).  obj is the Package, the value last passed to each of its setters   *)
(* (set), and the Revision, <<>> while there is none.                      *)
(***************************************************************************)
\* The Go zero value of a Package of either variant.
ZeroPackage(kind) ==
    [kind |-> kind, source |-> "",
     packagePullSecrets |-> <<>>, packagePullPolicy |-> Nil,
     ignoreCrossplaneConstraints |-> Nil, controllerConfigRef |-> Nil,
     skipDependencyResolution |-> Nil, commonLabels |-> [k \in {} |-> ""],
     activationPolicy |-> Nil, revisionHistoryLimit |-> NilInt,
     currentRevision |-> "", currentIdentifier |-> "", conditions |-> <<>>]

RevisionKind(p) ==
    IF p.kind = "Provider" THEN "ProviderRevision" ELSE "ConfigurationRevision"

\* The propagated configuration: each field read from the Package by its
\* getter and written to the Revision by its setter.
Propagate(p, r) ==
    SetSkipDependencyResolution(
        SetIgnoreCrossplaneConstraints(
            SetControllerConfigRef(
                SetCommonLabels(
                    SetPackagePullPolicy(
                        SetPackagePullSecrets(r, GetPackagePullSecrets(p)),
                        GetPackagePullPolicy(p)),
                    GetCommonLabels(p)),
                GetControllerConfigRef(p)),
            GetIgnoreCrossplaneConstraints(p)),
        GetSkipDependencyResolution(p))

\* The operator called a setter of the Package with argument v.
Configured(field, v, p) ==
    /\ obj.revision = <<>>
    /\ obj' = [obj EXCEPT !.package = p, !.set[field] = v]
    /\ last' = "Configure"
    /\ UNCHANGED <<pkg, revs, pre, deleted, rerun, issued>>

ConfigurePullSecrets ==
    \E x \in PullSecrets \ {obj.set["packagePullSecrets"]} :
        Configured("packagePullSecrets", x, SetPackagePullSecrets(obj.package, x))

ConfigurePullPolicy ==
    \E i \in PullPolicies \ {obj.set["packagePullPolicy"]} :
        Configured("packagePullPolicy", i, SetPackagePullPolicy(obj.package, i))

ConfigureCommonLabels ==
    \E l \in LabelMaps \ {obj.set["commonLabels"]} :
        Configured("commonLabels", l, SetCommonLabels(obj.package, l))

ConfigureControllerConfigRef ==
    \E r \in ConfigRefs \ {obj.set["controllerConfigRef"]} :
        Configured("controllerConfigRef", r, SetControllerConfigRef(obj.package, r))

ConfigureIgnoreCrossplaneConstraints ==
    \E b \in BoolPtrs \ {obj.set["ignoreCrossplaneConstraints"]} :
        Configured("ignoreCrossplaneConstraints", b,
                   SetIgnoreCrossplaneConstraints(obj.package, b))

ConfigureSkipDependencyResolution ==
    \E b \in BoolPtrs \ {obj.set["skipDependencyResolution"]} :
        Configured("skipDependencyResolution", b,
                   SetSkipDependencyResolution(obj.package, b))

CreateRevision ==
    /\ obj.revision = <<>>
    /\ obj' = [obj EXCEPT !.revision =
                  Propagate(obj.package,
                      SetDesiredState(
                          SetRevision(SetSource(ZeroRevision(RevisionKind(obj.package)),
                                                GetSource(obj.package)), 1),
                          PackageRevisionInactive))]
    /\ last' = "CreateRevision"
    /\ UNCHANGED <<pkg, revs, pre, deleted, rerun, issued>>

InitCfg ==
    /\ pkg = [source |-> "img:v1", activationPolicy |-> AutomaticActivation,
              revisionHistoryLimit |-> NilInt,
              currentRevision |-> "", currentIdentifier |-> ""]
    /\ revs = {}
    /\ last = "Init"
    /\ pre = NoRun
    /\ deleted = {}
    /\ rerun = FALSE
    /\ issued = 0
    /\ \E kind \in {"Provider", "Configuration"} :
          obj = [package |-> SetSource(ZeroPackage(kind), "img:v1"),
                 set |-> [packagePullSecrets |-> <<>>, packagePullPolicy |-> Nil,
                          commonLabels |-> [k \in {} |-> ""],
                          controllerConfigRef |-> Nil,
                          ignoreCrossplaneConstraints |-> Nil,
                          skipDependencyResolution |-> Nil],
                 revision |-> <<>>]

NextCfg ==
    \/ ConfigurePullSecrets
    \/ ConfigurePullPolicy
    \/ ConfigureCommonLabels
    \/ ConfigureControllerConfigRef
    \/ ConfigureIgnoreCrossplaneConstraints
    \/ ConfigureSkipDependencyResolution
    \/ CreateRevision

SpecCfg == InitCfg /\ [][NextCfg]_vars

(***************************************************************************)
(* One stored Revision and the loops that write it, design document        *)
(* sections 5 and 6.  obj is the stored object with its version token      *)
(* (stored) and, per loop, where it is in its read-compute-write cycle:    *)
(* the token it read and the object it is about to write.  pre is the last *)
(* write attempt: who made it, with which token and object, on which       *)
(* stored object, and whether the store took it.                           *)
(***************************************************************************)
\* Highest version token the store hands out.
MaxVersion == 4

\* The Package Reconciler writes the desired state, the Revision Reconciler
\* the dependency status.
Loops == {"PackageReconciler", "RevisionReconciler"}

\* Mutation: the store takes every write.
Accepts_Always(stored, token) == TRUE

\* The compare of the compare-and-swap: the write carries the current token.
Accepts(stored, token) == stored.version = token

\* What a loop computes from the object it read.
Computed(loop, base) ==
    IF loop = "PackageReconciler"
    THEN {SetDesiredState(base, d) :
            d \in {PackageRevisionActive, PackageRevisionInactive} \ {GetDesiredState(base)}}
    ELSE {SetDependencyStatus(base, 1, i, 1 - i) : i \in 0..1}
            \ {base}

\* A loop starts a reconciliation: a fresh read, and the object to write.
ReadAndCompute ==
    \E loop \in Loops :
        \E draft \in Computed(loop, obj.stored.value) :
            /\ obj.loops[loop].at = "idle"
            /\ Elsewhere([obj EXCEPT !.loops[loop] =
                            [at |-> "computed", token |-> obj.stored.version,
                             draft |-> draft]])

\* The loop writes.  A write with a stale token is rejected and the loop is
\* back where a reconciliation starts.
Write ==
    \E loop \in Loops :
        LET l == obj.loops[loop]
            ok == Accepts(obj.stored, l.token)
        IN  /\ l.at = "computed"
            /\ obj.stored.version < MaxVersion
            /\ obj' = [obj EXCEPT
                          !.stored = IF ok THEN [value |-> l.draft, version |-> @.version + 1]
                                     ELSE @,
                          !.loops[loop] = [at |-> "idle", token |-> 0, draft |-> <<>>]]
            /\ pre' = [loop |-> loop, token |-> l.token, draft |-> l.draft,
                       stored |-> obj.stored, accepted |-> ok]
            /\ last' = "Write"
            /\ UNCHANGED <<pkg, revs, deleted, rerun, issued>>

\* The operator updates the stored object: read and write in one step.
OperatorWrite ==
    \E i \in PullPolicies \ {GetPackagePullPolicy(obj.stored.value)} :
        /\ obj.stored.version < MaxVersion
        /\ Elsewhere([obj EXCEPT !.stored =
                        [value |-> SetPackagePullPolicy(@.value, i),
                         version |-> @.version + 1]])

InitStore ==
    /\ pkg = [source |-> "img:v1", activationPolicy |-> AutomaticActivation,
              revisionHistoryLimit |-> NilInt,
              currentRevision |-> "", currentIdentifier |-> ""]
    /\ revs = {}
    /\ last = "Init"
    /\ pre = NoRun
    /\ deleted = {}
    /\ rerun = FALSE
    /\ issued = 0
    /\ \E kind \in {"ProviderRevision", "ConfigurationRevision"} :
          obj = [stored |-> [value |-> CreatedRevision(kind), version |-> 1],
                 loops |-> [l \in Loops |-> [at |-> "idle", token |-> 0, draft |-> <<>>]]]

NextStore ==
    \/ ReadAndCompute
    \/ Write
    \/ OperatorWrite

SpecStore == InitStore /\ [][NextStore]_vars

(***************************************************************************)
(* One object of any of the four variants, from its zero value, under      *)
(* calls of the setters of its interface: Package for Provider and         *)
(* Configuration, PackageRevision for the two revision variants.  pre is   *)
(* the log of the calls, as for a created Revision above.                  *)
(***************************************************************************)
PackageKinds == {"Provider", "Configuration"}

CallSetActivationPolicy ==
    \E a \in {Nil, Ptr(AutomaticActivation), Ptr(ManualActivation)} :
        /\ obj.kind \in PackageKinds
        /\ CalledWith("SetActivationPolicy", a, SetActivationPolicy(obj, a))

CallSetRevisionHistoryLimit ==
    \E l \in {NilInt} \cup {PtrInt(n) : n \in 0..MaxLimit} :
        /\ obj.kind \in PackageKinds
        /\ CalledWith("SetRevisionHistoryLimit", l, SetRevisionHistoryLimit(obj, l))

CallSetCurrentRevision ==
    \E r \in {"", RevisionName(Identifier("img:v1"))} :
        /\ obj.kind \in PackageKinds
        /\ CalledWith("SetCurrentRevision", r, SetCurrentRevision(obj, r))

CallSetCurrentIdentifier ==
    \E r \in {"", Identifier("img:v1")} :
        /\ obj.kind \in PackageKinds
        /\ CalledWith("SetCurrentIdentifier", r, SetCurrentIdentifier(obj, r))

InitPair ==
    /\ pkg = [source |-> "img:v1", activationPolicy |-> AutomaticActivation,
              revisionHistoryLimit |-> NilInt,
              currentRevision |-> "", currentIdentifier |-> ""]
    /\ revs = {}
    /\ last = "Init"
    /\ pre = <<>>
    /\ deleted = {}
    /\ rerun = FALSE
    /\ issued = 0
    /\ obj \in {ZeroPackage(kind) : kind \in PackageKinds}
               \cup {ZeroRevision(kind) : kind \in RevisionKinds}

NextPair ==
    \/ CallSetSource
    \/ CallSetActivationPolicy
    \/ CallSetRevisionHistoryLimit
    \/ CallSetCurrentRevision
    \/ CallSetCurrentIdentifier
    \/ CallSetRevision
    \/ CallSetDesiredState
    \/ CallSetPackagePullSecrets
    \/ CallSetPackagePullPolicy
    \/ CallSetIgnoreCrossplaneConstraints
    \/ CallSetControllerConfigRef
    \/ CallSetSkipDependencyResolution
    \/ CallSetCommonLabels
    \/ CallSetCounters
    \/ CallSetConditions
    \/ CallSetObjects
    \/ CallSetControllerReference
    \/ CallSetWebhookTLSSecretName
    \/ CallSetESSTLSSecretName
    \/ CallSetTLSServerSecretName
    \/ CallSetTLSClientSecretName

SpecPair == InitPair /\ [][NextPair]_vars

(***************************************************************************)
(* What the properties below read off a state: the stored fields          *)
(* themselves, and what the last Reconcile did with them.                  *)
(***************************************************************************)
Reconciled == last = "Reconcile"

StoredActive(rs) == {r \in rs : r.desiredState = "Active"}

StoredInactive(rs) == {r \in rs : r.desiredState = "Inactive"}

Names(rs) == {r.name : r \in rs}

\* The Revisions the last Reconcile created (kept or deleted again since).
Created == {r \in revs \cup deleted : r.name \notin Names(pre.revs)}

TargetName == RevisionName(Identifier(pkg.source))

\* The target was reported healthy before the last Reconcile began.
TargetWasHealthy ==
    \E t \in pre.revs :
        /\ t.name = TargetName
        /\ TypeHealthy \in DOMAIN t.conditions
        /\ t.conditions[TypeHealthy] = "True"

(***************************************************************************)
(* C1.  Retention enforcement never deletes a Revision whose desired state *)
(* is Active at the moment of deletion, whatever the limit.                *)
(***************************************************************************)
C1_RetentionSparesActive ==
    Reconciled => \A d \in deleted : d.desiredState = "Inactive"

\* Retention with limit 0 deleted a Revision and the Active one is still there.
C1_Witness ==
    /\ Reconciled
    /\ pkg.revisionHistoryLimit = <<0>>
    /\ deleted # {}
    /\ StoredActive(revs) # {}

(***************************************************************************)
(* C2.  After a reconciliation under Automatic activation at most one      *)
(* owned Revision is Active: a double-Active state does not outlive a      *)
(* reconciliation.                                                         *)
(***************************************************************************)
C2_AtMostOneActive ==
    (Reconciled /\ pkg.activationPolicy = "Automatic")
        => Cardinality(StoredActive(revs)) <= 1

\* A reconciliation found two Active Revisions and left one.
C2_Witness ==
    /\ Reconciled
    /\ pkg.activationPolicy = "Automatic"
    /\ Cardinality(StoredActive(pre.revs)) = 2
    /\ Cardinality(StoredActive(revs)) = 1

(***************************************************************************)
(* C3.  Under Automatic activation the previously Active Revision stays    *)
(* Active while the target Revision is not healthy, and a Package that has *)
(* an Active Revision keeps at least one.                                  *)
(***************************************************************************)
C3_Rollover ==
    (Reconciled /\ pkg.activationPolicy = "Automatic") =>
        /\ StoredActive(pre.revs) # {} => StoredActive(revs) # {}
        /\ \A p \in pre.revs :
              (StoredActive(pre.revs) = {p} /\ p.name # TargetName /\ ~TargetWasHealthy)
                  => \E r \in StoredActive(revs) : r.name = p.name

C3_NoDowntime ==
    /\ []C3_Rollover
    /\ [][(pkg.activationPolicy = "Automatic" /\ StoredActive(revs) # {})
             => StoredActive(revs') # {}]_vars

\* The source moved to a new identifier; its Revision exists, Inactive and not
\* healthy, next to the previous Revision, which is still Active.
C3_Witness ==
    /\ Reconciled
    /\ pkg.activationPolicy = "Automatic"
    /\ ~TargetWasHealthy
    /\ \E p \in pre.revs :
          /\ StoredActive(pre.revs) = {p}
          /\ p.name # TargetName
          /\ \E r \in StoredActive(revs) : r.name = p.name
    /\ \E t \in StoredInactive(revs) : t.name = TargetName

(***************************************************************************)
(* C4.  Revision numbers handed to new Revisions strictly increase in      *)
(* creation order, and no two Revisions of the Package ever share one.     *)
(***************************************************************************)
C4_StrictlyIncreasing ==
    /\ \A r, q \in revs : r.revision = q.revision => r = q
    /\ Reconciled => \A c \in Created : c.revision > pre.issued

(***************************************************************************)
(* C5.  With a limit set, retention deletes Inactive Revisions only when   *)
(* they outnumber the limit, exactly the excess, lowest revision numbers   *)
(* first: afterwards at most limit Inactive Revisions are left and every   *)
(* deleted one is older than every retained Inactive one.                  *)
(***************************************************************************)
C5_RetentionOldestFirst ==
    (Reconciled /\ pkg.revisionHistoryLimit # <<>>) =>
        LET limit == pkg.revisionHistoryLimit[1]
            kept == StoredInactive(revs)
        IN  /\ Cardinality(kept) <= limit
            /\ deleted # {} => Cardinality(kept) = limit
            /\ \A d \in deleted :
                  /\ d.desiredState = "Inactive"
                  /\ \A r \in kept : d.revision < r.revision

\* Limit 1: the older Inactive Revision was deleted, the newer one retained.
C5_Witness ==
    /\ Reconciled
    /\ pkg.revisionHistoryLimit = <<1>>
    /\ deleted # {}
    /\ Cardinality(StoredInactive(revs)) = 1
    /\ StoredActive(revs) # {}

(***************************************************************************)
(* C6.  A second run of the Package Reconciler on an unchanged observed    *)
(* state creates, updates and deletes no Revision and changes no status.   *)
(***************************************************************************)
C6_Idempotent ==
    (Reconciled /\ rerun) =>
        /\ revs = pre.revs
        /\ deleted = {}
        /\ pkg.currentRevision = pre.currentRevision
        /\ pkg.currentIdentifier = pre.currentIdentifier

(***************************************************************************)
(* C7.  A Package without Revisions, under Automatic activation:           *)
(* reconciliation creates exactly one Revision, numbered 1 and Active, and *)
(* the Package status currentRevision is its name.                         *)
(***************************************************************************)
C7_FirstRevision ==
    (Reconciled /\ pre.revs = {} /\ pkg.activationPolicy = "Automatic") =>
        /\ deleted = {}
        /\ \E r \in revs :
              /\ revs = {r}
              /\ r.name = TargetName
              /\ r.source = pkg.source
              /\ r.revision = 1
              /\ r.desiredState = "Active"
              /\ pkg.currentRevision = r.name

C7_Witness ==
    /\ Reconciled
    /\ pre.revs = {}
    /\ pkg.activationPolicy = "Automatic"
    /\ pkg.source = "img:v1"
    /\ pkg.currentRevision = "pkg-aaa"
    /\ \E r \in revs : revs = {r} /\ r.revision = 1 /\ r.desiredState = "Active"

(***************************************************************************)
(* C8.  Under Manual activation the Package Reconciler changes the desired *)
(* state of no existing Revision, and every Revision it creates is         *)
(* Inactive.                                                               *)
(***************************************************************************)
C8_ManualFrame ==
    (Reconciled /\ pkg.activationPolicy = "Manual") =>
        \A r \in revs \cup deleted :
            IF r.name \in Names(pre.revs)
            THEN \E p \in pre.revs : p.name = r.name /\ p.desiredState = r.desiredState
            ELSE r.desiredState = "Inactive"

\* A Manual reconciliation created a Revision next to an Active one.
C8_Witness ==
    /\ Reconciled
    /\ pkg.activationPolicy = "Manual"
    /\ \E c \in Created : c \in revs
    /\ \E p \in StoredActive(pre.revs) : p \in revs

(***************************************************************************)
(* C9.  After a reconciliation the Package status names an Active          *)
(* Revision when there is one, and keeps its previous values when none is. *)
(***************************************************************************)
C9_StatusFollowsActive ==
    Reconciled =>
        IF StoredActive(revs) # {}
        THEN \E a \in StoredActive(revs) :
                /\ pkg.currentRevision = a.name
                /\ pkg.currentIdentifier = Identifier(a.source)
        ELSE /\ pkg.currentRevision = pre.currentRevision
             /\ pkg.currentIdentifier = pre.currentIdentifier

\* No Revision is Active and the status still names the last one that was.
C9_Witness ==
    /\ Reconciled
    /\ StoredActive(revs) = {}
    /\ revs # {}
    /\ pkg.currentRevision # ""
    /\ pkg.currentIdentifier # ""

(***************************************************************************)
(* C10.  The dependency counters of a Revision satisfy                     *)
(* 0 <= invalid <= found and 0 <= installed <= found in every reachable    *)
(* state, whatever SetDependencyStatus calls produced them.                *)
(***************************************************************************)
C10_CountersBounded ==
    LET found == GetDependencyStatus(obj)[1]
        installed == GetDependencyStatus(obj)[2]
        invalid == GetDependencyStatus(obj)[3]
    IN  /\ 0 <= invalid /\ invalid <= found
        /\ 0 <= installed /\ installed <= found

After(i) == IF i < Len(pre) THEN pre[i + 1].before ELSE obj

FixedSpec(o) ==
    <<o.source, o.revision, o.packagePullSecrets, o.packagePullPolicy,
      o.ignoreCrossplaneConstraints, o.controllerConfigRef,
      o.skipDependencyResolution, o.commonLabels>>

C20_DesiredStateValid ==
    SchemaAccepts(obj) =>
        GetDesiredState(obj) \in {PackageRevisionActive, PackageRevisionInactive}

(***************************************************************************)
(* What the last pass of the Revision Reconciler did.                      *)
(***************************************************************************)
RevisionReconciled == last = "ReconcileRevision"

HealthyNow(o) ==
    /\ TypeHealthy \in DOMAIN o.rev.conditions
    /\ o.rev.conditions[TypeHealthy] = "True"

(***************************************************************************)
(* C13.  A Revision moves from Installing to Active-Healthy only when all  *)
(* its objects were applied without conflict, its dependency status has    *)
(* invalid = 0 and, its desired state being Active, its controller         *)
(* workload reports ready.                                                 *)
(***************************************************************************)
C13_EstablishedOnlyWhenReady ==
    (RevisionReconciled /\ pre.phase = "Installing" /\ obj.phase = "Active-Healthy") =>
        /\ obj.applied
        /\ obj.conflictFree \/ pre.applied
        /\ obj.rev.invalidDependencies = 0
        /\ obj.rev.desiredState = "Active" => obj.ready

\* A pass took an Active Revision with one satisfied dependency from
\* Installing to Active-Healthy.
C13_Witness ==
    /\ RevisionReconciled
    /\ pre.phase = "Installing" /\ obj.phase = "Active-Healthy"
    /\ obj.rev.desiredState = "Active"
    /\ obj.dep = <<"satisfied">>
    /\ obj.rev.foundDependencies = 1
    /\ HealthyNow(obj)

(***************************************************************************)
(* A pass that resolved the one declared dependency of an Active Revision  *)
(* and found its constraint in conflict with the installed Package.        *)
(***************************************************************************)
ResolvedConflict ==
    /\ RevisionReconciled
    /\ pre.phase \in {"Installing", "Active-Healthy"}
    /\ pre.rev.desiredState = "Active"
    /\ pre.rev.skipDependencyResolution # <<TRUE>>
    /\ pre.dep = <<"conflict">>

C15_SkippedReportsZero ==
    (RevisionReconciled /\ pre.rev.skipDependencyResolution = <<TRUE>>) =>
        GetDependencyStatus(obj.rev) = <<0, 0, 0>>

\* The counters of an earlier resolution were wiped by the pass.
C15_Witness ==
    /\ RevisionReconciled
    /\ pre.rev.skipDependencyResolution = <<TRUE>>
    /\ pre.rev.foundDependencies = 1 /\ pre.rev.invalidDependencies = 1
    /\ obj.rev.foundDependencies = 0 /\ obj.rev.invalidDependencies = 0

(***************************************************************************)
(* C19.  A dependency-resolution run deletes no installed Package and      *)
(* changes the source and the version of none; the declared constraints    *)
(* that conflict with an installed Package are the ones counted invalid.   *)
(***************************************************************************)
Conflicting ==
    {src \in DOMAIN pre.manifest :
        \E p \in pre.packages : p.source = src /\ p.version \notin pre.manifest[src]}

C19_ResolverLeavesPackages ==
    last = "Resolve" =>
        /\ pre.packages \subseteq obj.packages
        /\ \A p \in obj.packages \ pre.packages :
              \A q \in pre.packages : q.source # p.source
        /\ obj.rev.invalidDependencies = Cardinality(Conflicting)

\* A constraint admitting only version 1 met the Package installed at
\* version 2: counted invalid, the Package still at version 2, while another
\* dependency was installed on demand.
C19_Witness ==
    /\ last = "Resolve"
    /\ \E src \in Conflicting :
          /\ pre.manifest[src] = {1}
          /\ [source |-> src, version |-> 2] \in obj.packages
    /\ obj.rev.invalidDependencies = 1
    /\ obj.packages # pre.packages

(***************************************************************************)
(* What a caller holding pointer a sees in memory m, and the pointers of   *)
(* the side an operation did not go through.                               *)
(***************************************************************************)
Seen(m, a) ==
    [desiredState |-> GetDesiredState(m.structs[a]),
     status |-> GetDependencyStatus(m.structs[a]),
     labels |-> m.maps[GetCommonLabels(m.structs[a])],
     refs |-> m.slices[GetObjects(m.structs[a])]]

Across(m, side) == IF side = "view" THEN m.items ELSE m.view

\* Operation k went through ptr; the pointer q of the other side refers to
\* the storage the operation wrote.
SharesWritten(m, op, q) ==
    LET ptr == (IF op.side = "view" THEN m.view ELSE m.items)[op.index]
    IN  \/ op.kind = "labels"
           /\ GetCommonLabels(m.structs[q]) = GetCommonLabels(m.structs[ptr])
        \/ op.kind = "objects"
           /\ GetObjects(m.structs[q]) = GetObjects(m.structs[ptr])

PropagatedOf(o) ==
    [packagePullSecrets |-> GetPackagePullSecrets(o),
     packagePullPolicy |-> GetPackagePullPolicy(o),
     commonLabels |-> GetCommonLabels(o),
     controllerConfigRef |-> GetControllerConfigRef(o),
     ignoreCrossplaneConstraints |-> GetIgnoreCrossplaneConstraints(o),
     skipDependencyResolution |-> GetSkipDependencyResolution(o)]

(***************************************************************************)
(* C17.  As stated: each propagated configuration field of a created       *)
(* Revision equals the value that was set on the owning Package, for       *)
(* Provider and for Configuration.                                         *)
(***************************************************************************)
C17_PropagatedAsSet ==
    obj.revision # <<>> => PropagatedOf(obj.revision) = obj.set

(***************************************************************************)
(* C17, amended.  Each propagated configuration field of a created         *)
(* Revision equals what the Package's getter returns: the value set on the *)
(* Package, except that the controllerConfigRef of a Configuration's       *)
(* Revision is nil whatever was set.                                       *)
(***************************************************************************)
C17_PropagatedAsRead ==
    obj.revision # <<>> =>
        /\ PropagatedOf(obj.revision) = PropagatedOf(obj.package)
        /\ PropagatedOf(obj.revision) =
              IF obj.package.kind = "Configuration"
              THEN [obj.set EXCEPT !.controllerConfigRef = <<>>]
              ELSE obj.set

\* A Configuration with a pull policy and a controllerConfigRef set: its
\* Revision has the pull policy and no controllerConfigRef.
C17_Witness ==
    /\ obj.revision # <<>>
    /\ obj.package.kind = "Configuration"
    /\ obj.set.controllerConfigRef = <<"config">>
    /\ obj.set.packagePullPolicy = <<"Always">>
    /\ obj.revision.packagePullPolicy = <<"Always">>
    /\ obj.revision.controllerConfigRef = <<>>
    /\ obj.revision.kind = "ConfigurationRevision"

(***************************************************************************)
(* C18.  A write based on a stale version token is rejected and leaves the *)
(* stored object as it was, and the loop that made it starts again from a  *)
(* fresh read; every write that is taken was computed from the stored      *)
(* object it replaces, so the stored object never mixes fields of a stale  *)
(* computation with a newer write.                                         *)
(***************************************************************************)
C18_StaleWriteRejected ==
    last = "Write" =>
        /\ pre.token # pre.stored.version =>
              /\ ~pre.accepted
              /\ obj.stored = pre.stored
              /\ obj.loops[pre.loop].at = "idle"
        /\ pre.accepted =>
              /\ obj.stored.version = pre.stored.version + 1
              /\ obj.stored.value \in Computed(pre.loop, pre.stored.value)

\* The Package Reconciler read version 1; the store moved on to a newer
\* dependency status; the Package Reconciler's write was rejected.
C18_Witness ==
    /\ last = "Write"
    /\ pre.loop = "PackageReconciler"
    /\ ~pre.accepted
    /\ pre.token = 1
    /\ pre.stored.version > 1
    /\ pre.stored.value.foundDependencies = 1
    /\ pre.draft.foundDependencies = 0
    /\ obj.stored = pre.stored

(***************************************************************************)
(* A revision with its three dependency counters blanked: what is left is  *)
(* every field SetDependencyStatus has no business with.                   *)
(***************************************************************************)
BesidesCounters(o) ==
    [o EXCEPT !.foundDependencies = 0,
              !.installedDependencies = 0,
              !.invalidDependencies = 0]

(***************************************************************************)
(* C21.  On a Revision of either variant the three dependency counters are *)
(* changed by SetDependencyStatus only: every other setter leaves what     *)
(* GetDependencyStatus returns as it was, and SetDependencyStatus changes  *)
(* nothing but the counters, after which GetDependencyStatus returns its   *)
(* arguments in the order (found, installed, invalid) they were passed.    *)
(***************************************************************************)
C21_CountersBySetDependencyStatusOnly ==
    \A i \in 1..Len(pre) :
        IF pre[i].op = "SetDependencyStatus"
        THEN /\ GetDependencyStatus(After(i)) = pre[i].arg
             /\ BesidesCounters(After(i)) = BesidesCounters(pre[i].before)
        ELSE GetDependencyStatus(After(i)) = GetDependencyStatus(pre[i].before)

\* SetDependencyStatus(1, 0, 1) was called on the created Revision and a
\* setter of another field after it: the counters read <<1, 0, 1>> still.
C21_Witness ==
    /\ Len(pre) = 2
    /\ pre[1].op = "SetDependencyStatus" /\ pre[1].arg = <<1, 0, 1>>
    /\ pre[2].op = "SetObjects"
    /\ GetObjects(obj) # GetObjects(pre[2].before)
    /\ GetDependencyStatus(obj) = <<1, 0, 1>>

(***************************************************************************)
(* What the getter paired with a setter returns on o.  SetConditions has   *)
(* no getter of the whole: GetCondition takes the type of one condition.   *)
(***************************************************************************)
Returned(op, o) ==
    CASE op = "SetSource" -> GetSource(o)
      [] op = "SetActivationPolicy" -> GetActivationPolicy(o)
      [] op = "SetRevisionHistoryLimit" -> GetRevisionHistoryLimit(o)
      [] op = "SetCurrentRevision" -> GetCurrentRevision(o)
      [] op = "SetCurrentIdentifier" -> GetCurrentIdentifier(o)
      [] op = "SetRevision" -> GetRevision(o)
      [] op = "SetDesiredState" -> GetDesiredState(o)
      [] op = "SetPackagePullSecrets" -> GetPackagePullSecrets(o)
      [] op = "SetPackagePullPolicy" -> GetPackagePullPolicy(o)
      [] op = "SetIgnoreCrossplaneConstraints" -> GetIgnoreCrossplaneConstraints(o)
      [] op = "SetControllerConfigRef" -> GetControllerConfigRef(o)
      [] op = "SetSkipDependencyResolution" -> GetSkipDependencyResolution(o)
      [] op = "SetCommonLabels" -> GetCommonLabels(o)
      [] op = "SetDependencyStatus" -> GetDependencyStatus(o)
      [] op = "SetConditions" -> <<TypeHealthy, GetCondition(o, TypeHealthy)>>
      [] op = "SetObjects" -> GetObjects(o)
      [] op = "SetControllerReference" -> GetControllerReference(o)
      [] op = "SetWebhookTLSSecretName" -> GetWebhookTLSSecretName(o)
      [] op = "SetESSTLSSecretName" -> GetESSTLSSecretName(o)
      [] op = "SetTLSServerSecretName" -> GetTLSServerSecretName(o)
      [] op = "SetTLSClientSecretName" -> GetTLSClientSecretName(o)

\* The calls of the SetX/GetX pairs the two interfaces list.
PairCalls == {i \in 1..Len(pre) : pre[i].op # "SetConditions"}

(***************************************************************************)
(* C22.  As stated: on each of the four variants, for each SetX/GetX pair  *)
(* of the Package and PackageRevision interfaces, GetX() called after      *)
(* SetX(v) returns v.                                                      *)
(***************************************************************************)
C22_EveryPairRoundTrips ==
    \A i \in PairCalls : Returned(pre[i].op, After(i)) = pre[i].arg

(***************************************************************************)
(* C22, amended.  GetX() called after SetX(v) returns v for every pair of  *)
(* the two interfaces on Provider, ProviderRevision and                    *)
(* ConfigurationRevision, and for every pair on Configuration but          *)
(* ControllerConfigRef: there SetControllerConfigRef leaves the            *)
(* Configuration as it was and GetControllerConfigRef returns nil.         *)
(***************************************************************************)
C22_RoundTripsButConfigurationConfigRef ==
    \A i \in PairCalls :
        IF pre[i].before.kind = "Configuration" /\ pre[i].op = "SetControllerConfigRef"
        THEN /\ After(i) = pre[i].before
             /\ Returned(pre[i].op, After(i)) = Nil
        ELSE Returned(pre[i].op, After(i)) = pre[i].arg

\* On a Configuration SetControllerConfigRef was called with a reference and
\* GetControllerConfigRef returned nil after it, while the identifier set
\* next was returned by GetCurrentIdentifier.
C22_Witness ==
    /\ Len(pre) = 2
    /\ obj.kind = "Configuration"
    /\ pre[1].op = "SetControllerConfigRef" /\ pre[1].arg = Ptr("config")
    /\ GetControllerConfigRef(pre[2].before) = Nil
    /\ pre[2].op = "SetCurrentIdentifier" /\ pre[2].arg = Identifier("img:v1")
    /\ GetCurrentIdentifier(obj) = Identifier("img:v1")


====
